---- MODULE Spec2Model ----
(***************************************************************************)
(* api-bouncer: the admission-control engine.                              *)
(*                                                                         *)
(*   app/algorithms/sliding_window.py  SlidingWindowRateLimiter            *)
(*   app/algorithms/token_bucket.py    TokenBucketRateLimiter              *)
(*   app/middleware/rate_limiter.py    RateLimitMiddleware                 *)
(*   app/config.py                     Config, RateLimitPolicy             *)
(*                                                                         *)
(* The Redis store is the shared state.  Every awaited store call is one   *)
(* step of the model; the code a handler runs between two awaits is part   *)
(* of the step that follows the first of them.  Time is counted in ticks   *)
(* of 1/TicksPerSecond seconds; the store and every handler read the same  *)
(* clock, and two readings of it may be equal.  Token counts are exact     *)
(* rationals, kept as integers scaled by Scale(policy); the rounding of    *)
(* Python floats is not modelled.                                          *)
(***************************************************************************)
EXTENDS Integers, Sequences, FiniteSets, TLC

(***************************************************************************)
(* Bounds of the model.                                                    *)
(***************************************************************************)
MaxTime == 5
MaxCalls == 3
MaxRequests == 2
MaxWindow == 1
MaxBurst == 2
NumHandlers == 2
MaxDispatch == 4
MaxThreshold == 2
\* Concurrent runs through the middleware are kept shorter.
ConcCalls == 3
ConcTime == 3
\* The window, in seconds, of the policies of the runs in which keys expire.
LongWindow == 20
\* Requests in the runs with two clients.
PairDispatch == 7
PairTime == 1
\* Concurrent runs in which store calls fail are the shortest.
AnyCalls == 3
AnyTime == 1
\* Calls, and characters after the first of a string, in the runs over keys.
KeyCalls == 2
MaxKeyLen == 2

\* time.time() returns fractional seconds: a second is TicksPerSecond ticks.
TicksPerSecond == 2

Handlers == 1 .. NumHandlers

(***************************************************************************)
(* config.py                                                               *)
(***************************************************************************)
REDIS_PREFIX == <<"api_bouncer">>
SLIDING_WINDOW_PREFIX == REDIS_PREFIX \o <<":", "sliding_window">>
TOKEN_BUCKET_PREFIX == REDIS_PREFIX \o <<":", "token_bucket">>
VIOLATION_PREFIX == REDIS_PREFIX \o <<":", "violations">>
BLOCK_PREFIX == REDIS_PREFIX \o <<":", "blocked">>

\* RateLimitPolicy(requests, window_seconds, burst_size)
RateLimitPolicy(r, w, b) == [requests |-> r, window_seconds |-> w, burst_size |-> b]

\* The policies a limiter is called with: every valid triple within the bounds.
Policies ==
    { RateLimitPolicy(r, w, b) : r \in 1 .. MaxRequests, w \in 1 .. MaxWindow,
                                 b \in 1 .. MaxBurst }

DEFAULT_POLICY == RateLimitPolicy(MaxRequests, MaxWindow, MaxBurst)
AUTH_POLICY == RateLimitPolicy(1, 1, 1)

\* Identifiers and routes are strings, kept as sequences of characters.
RouteX == <<"/", "x">>
RouteLogin == <<"/", "auth", "/", "login">>
Identifiers == { <<"A">>, <<"B">> }
Routes == { RouteX, RouteLogin }

ROUTE_POLICIES == [r \in {RouteLogin} |-> AUTH_POLICY]

get_policy_for_route(route_path) ==
    IF route_path \in DOMAIN ROUTE_POLICIES THEN ROUTE_POLICIES[route_path]
    ELSE DEFAULT_POLICY

\* VIOLATION_THRESHOLD is read from the variable violation_threshold; the window
\* and the block duration are in seconds.
VIOLATION_WINDOW == 2
BLOCK_DURATION == 1

(***************************************************************************)
(* Keys                                                                    *)
(***************************************************************************)
\* route.replace(":", "_").replace("/", "_")
RECURSIVE SafeRoute(_)
SafeRoute(route) ==
    IF route = <<>> THEN <<>>
    ELSE <<IF Head(route) \in {":", "/"} THEN "_" ELSE Head(route)>>
             \o SafeRoute(Tail(route))

SW_get_key(identifier, route) ==
    SLIDING_WINDOW_PREFIX \o <<":">> \o identifier \o <<":">> \o SafeRoute(route)

TB_get_key(identifier, route) ==
    TOKEN_BUCKET_PREFIX \o <<":">> \o identifier \o <<":">> \o SafeRoute(route)

violation_key(identifier) == VIOLATION_PREFIX \o <<":">> \o identifier

\* A faulty variant: one block key, that of client A, for every client.
block_keyShared(identifier) == BLOCK_PREFIX \o <<":">> \o <<"A">>

block_key(identifier) == BLOCK_PREFIX \o <<":">> \o identifier

AllKeys ==
    { SW_get_key(i, r) : i \in Identifiers, r \in Routes }
      \cup { TB_get_key(i, r) : i \in Identifiers, r \in Routes }
      \cup { violation_key(i) : i \in Identifiers }
      \cup { block_key(i) : i \in Identifiers }

(***************************************************************************)
(* The store: what the Redis commands the code issues do to one key.       *)
(* A key holds a sorted set (members with scores), a hash or a string;     *)
(* exp is the tick at which a key with a TTL stops existing.               *)
(***************************************************************************)
NoKey == [kind |-> "none", z |-> {}, tokens |-> 0, last_refill |-> 0,
          ttl |-> FALSE, exp |-> 0]

\* ZREMRANGEBYSCORE key lo hi: both ends inclusive.
ZRemRangeByScore(v, lo, hi) ==
    LET kept == { e \in v.z : ~(lo <= e.score /\ e.score <= hi) }
    IN  IF kept = {} THEN NoKey ELSE [v EXCEPT !.z = kept]

ZCard(v) == Cardinality(v.z)

\* ZADD key {member: score}: a member already present only has its score updated.
ZAdd(v, member, score) ==
    [v EXCEPT !.kind = "zset",
              !.z = { e \in v.z : e.member # member }
                      \cup {[member |-> member, score |-> score]}]

\* EXPIRE key seconds, executed by the store at tick t.
ExpireAt(v, seconds, t) ==
    IF v.kind = "none" THEN v
    ELSE [v EXCEPT !.ttl = TRUE, !.exp = t + seconds * TicksPerSecond]

\* SETEX key seconds value, executed by the store at tick t.
SetEx(v, seconds, t) ==
    [NoKey EXCEPT !.kind = "string", !.ttl = TRUE, !.exp = t + seconds * TicksPerSecond]

\* EXISTS key
Exists(v) == v.kind # "none"

\* A key whose TTL has run out at tick t is gone.
Expired(v, t) == v.kind # "none" /\ v.ttl /\ v.exp <= t

Sweep(d, t) == [k \in DOMAIN d |-> IF Expired(d[k], t) THEN NoKey ELSE d[k]]

\* int(x) for x >= 0 given as num/den.
IntOf(num, den) == num \div den

\* str(now): distinct floats have distinct representations.
Str(t) == ToString(t)

VARIABLES
    now,                  \* the clock, in ticks
    db,                   \* the store: key -> value
    hs,                   \* handler -> its request in flight
    algorithm,            \* the limiter in use (RateLimitMiddleware.algorithm)
    violation_threshold,  \* config.VIOLATION_THRESHOLD
    callPolicy,           \* the policy the limiter is called with directly
    ncalls,               \* requests started so far
    decisions,            \* what the limiter returned to its direct callers, in order
    denialTimes,          \* identifier -> the clock readings of its recorded violations
    blockWrites,          \* identifier -> the ticks at which its block key was written
    denialRoutes,         \* identifier -> the routes of its recorded violations
    redis_client          \* the RedisClient instance of redis_client.py

vars == <<now, db, hs, algorithm, violation_threshold, callPolicy, ncalls,
          decisions, denialTimes, blockWrites, denialRoutes, redis_client>>

config == <<algorithm, violation_threshold, callPolicy>>
history == <<decisions, denialTimes, blockWrites, denialRoutes>>

Idle == [pc |-> "idle", via |-> "none", identifier |-> <<>>, route |-> <<>>,
         policy |-> RateLimitPolicy(0, 0, 0), now |-> 0,
         is_allowed |-> FALSE, remaining |-> 0, reset_time |-> 0,
         current_count |-> 0, tokens |-> 0, vnow |-> 0, violation_count |-> 0,
         status |-> "none", retry_after |-> 0, failed |-> FALSE, deleted |-> 0]

Max(a, b) == IF a >= b THEN a ELSE b
Min(a, b) == IF a <= b THEN a ELSE b

\* limiter.is_allowed starts: now = time.time(), before its first await.
LimiterEntry(r, policy, t) ==
    [r EXCEPT !.pc = IF algorithm = "token_bucket" THEN "tb_read" ELSE "sw_txn",
              !.policy = policy,
              !.now = t]

\* Handlers are interchangeable: a request is taken by the first free one.
FirstFree(h) == hs[h].pc = "idle" /\ \A g \in 1 .. h - 1 : hs[g].pc # "idle"

\* A direct call of limiter.is_allowed(identifier, route, policy).
CallLimiter(h, identifier, route) ==
    /\ FirstFree(h)
    /\ ncalls < MaxCalls
    /\ ncalls' = ncalls + 1
    /\ hs' = [hs EXCEPT ![h] =
                LimiterEntry([Idle EXCEPT !.via = "direct",
                                          !.identifier = identifier,
                                          !.route = route],
                             callPolicy, now)]
    /\ UNCHANGED <<now, db, config, redis_client, history>>

\* A faulty variant: a denied request is answered without a violation record.
AfterLimiterNoRecord(r) ==
    IF r.via = "direct" THEN [r EXCEPT !.pc = "done"]
    ELSE IF r.is_allowed THEN [r EXCEPT !.pc = "done", !.status = "ok"]
    ELSE [r EXCEPT !.pc = "respond"]

\* Where a handler goes once its limiter has returned: a direct caller has its
\* answer; dispatch calls the next handler (call_next) or records a violation.
AfterLimiter(r) ==
    IF r.via = "direct" THEN [r EXCEPT !.pc = "done"]
    ELSE IF r.is_allowed THEN [r EXCEPT !.pc = "done", !.status = "ok"]
    ELSE [r EXCEPT !.pc = "rv_clock"]

Decision(r, key) ==
    [key |-> key, identifier |-> r.identifier, route |-> r.route,
     policy |-> r.policy, t |-> r.now, allowed |-> r.is_allowed,
     remaining |-> r.remaining, reset_time |-> r.reset_time,
     count |-> r.current_count, tokens |-> r.tokens]

Returned(r, key) ==
    IF r.via = "direct" THEN Append(decisions, Decision(r, key)) ELSE decisions

\* An exception leaves the handler: the caller gets no decision.
Raised(r) == [r EXCEPT !.pc = "done", !.status = "error"]

(***************************************************************************)
(* redis_client.py: RedisClient.  redis and pool are the fields _redis and *)
(* _pool; pc is where a connect() or disconnect() in progress stands;      *)
(* established records whether the connection test of the connect() that   *)
(* set the handle has succeeded (and no disconnect() has begun since).     *)
(***************************************************************************)
\* RedisClient.__init__
NotConnected == [redis |-> "None", pool |-> "None", pc |-> "idle",
                 established |-> FALSE]

\* The instance once connect() has returned at application startup.
Connected == [redis |-> "Redis", pool |-> "ConnectionPool", pc |-> "idle",
              established |-> TRUE]

\* get_client(): raises RuntimeError if self._redis is None
get_client_raises == redis_client.redis = "None"

\* connect() up to its await: returns at once if a handle is set, else builds
\* the pool and the handle and sends the PING.
ConnectStart ==
    /\ redis_client.pc = "idle"
    /\ redis_client' =
          IF redis_client.redis # "None" THEN redis_client
          ELSE [redis |-> "Redis", pool |-> "ConnectionPool", pc |-> "ping",
                established |-> FALSE]
    /\ UNCHANGED <<now, db, hs, config, ncalls, history>>

\* await self._redis.ping(): on an exception connect() re-raises it, and the
\* handle and the pool stay as they were set.
ConnectPing ==
    /\ redis_client.pc = "ping"
    /\ \E ok \in BOOLEAN :
          redis_client' = [redis_client EXCEPT !.pc = "idle", !.established = ok]
    /\ UNCHANGED <<now, db, hs, config, ncalls, history>>

\* disconnect() up to its awaits (close, pool.disconnect), with a handle set.
DisconnectStart ==
    /\ redis_client.pc = "idle"
    /\ redis_client.redis # "None"
    /\ redis_client' = [redis_client EXCEPT !.pc = "closing", !.established = FALSE]
    /\ UNCHANGED <<now, db, hs, config, ncalls, history>>

\* self._redis = None; self._pool = None
DisconnectEnd ==
    /\ redis_client.pc = "closing"
    /\ redis_client' = NotConnected
    /\ UNCHANGED <<now, db, hs, config, ncalls, history>>

(***************************************************************************)
(* SlidingWindowRateLimiter.is_allowed                                     *)
(***************************************************************************)
\* A faulty variant: a call is allowed with the log already full.
SWAllowedUpTo(current_count, policy) == current_count <= policy.requests

\* A faulty variant: the count compared with the limit is the one after the insert.
SWAllowedPostInsert(current_count, policy) == current_count + 1 < policy.requests

\* is_allowed = current_count < policy.requests
SWAllowed(current_count, policy) == current_count < policy.requests

\* remaining = max(0, policy.requests - current_count - 1)
SWRemaining(current_count, policy) == Max(0, policy.requests - current_count - 1)

\* reset_time = int(now + policy.window_seconds)
SWResetTime(t, policy) ==
    IntOf(t + policy.window_seconds * TicksPerSecond, TicksPerSecond)

\* A faulty variant: the entry scored exactly now - window_seconds is kept.
SWPrunedExclusive(v, t, policy) ==
    ZRemRangeByScore(v, 0, t - policy.window_seconds * TicksPerSecond - 1)

\* pipe.zremrangebyscore(key, 0, window_start)
SWPruned(v, t, policy) ==
    ZRemRangeByScore(v, 0, t - policy.window_seconds * TicksPerSecond)

\* A faulty variant: the pipeline does not set the key's TTL.
SWPipelineNoExpire(v, t, policy, at) ==
    LET pruned == SWPruned(v, t, policy)
        added == ZAdd(pruned, Str(t), t)
    IN  <<added, ZCard(pruned)>>

\* The MULTI/EXEC pipeline on one key, with the client's clock reading t,
\* executed by the store at tick `at`: <<value after, result of ZCARD>>.
SWPipeline(v, t, policy, at) ==
    LET pruned == SWPruned(v, t, policy)
        added == ZAdd(pruned, Str(t), t)
    IN  <<ExpireAt(added, policy.window_seconds + 10, at), ZCard(pruned)>>

\* results = await pipe.execute(), and the code up to the return.
SWTxn(h) ==
    /\ hs[h].pc = "sw_txn"
    /\ LET r == hs[h]
           key == SW_get_key(r.identifier, r.route)
           res == SWPipeline(db[key], r.now, r.policy, now)
           r2 == [r EXCEPT !.current_count = res[2],
                           !.is_allowed = SWAllowed(res[2], r.policy),
                           !.remaining = SWRemaining(res[2], r.policy),
                           !.reset_time = SWResetTime(r.now, r.policy)]
       IN  /\ db' = [db EXCEPT ![key] = res[1]]
           /\ hs' = [hs EXCEPT ![h] = AfterLimiter(r2)]
           /\ decisions' = Returned(r2, key)
    /\ UNCHANGED <<now, config, redis_client, ncalls,
                   denialTimes, blockWrites, denialRoutes>>

\* except redis.RedisError: return True, policy.requests,
\*                                 int(now + policy.window_seconds)
SWFailOpen(r) ==
    [r EXCEPT !.failed = TRUE, !.is_allowed = TRUE,
              !.remaining = r.policy.requests,
              !.reset_time = SWResetTime(r.now, r.policy)]

\* await pipe.execute() raises redis.RedisError.  The store may have run the
\* transaction before the reply was lost, or not have received it.
SWTxnFails(h) ==
    /\ hs[h].pc = "sw_txn"
    /\ LET r == hs[h]
           key == SW_get_key(r.identifier, r.route)
           r2 == SWFailOpen(r)
       IN  /\ \E applied \in BOOLEAN :
                 db' = IF applied
                       THEN [db EXCEPT ![key] = SWPipeline(db[key], r.now, r.policy, now)[1]]
                       ELSE db
           /\ hs' = [hs EXCEPT ![h] = AfterLimiter(r2)]
           /\ decisions' = Returned(r2, key)
    /\ UNCHANGED <<now, config, redis_client, ncalls,
                   denialTimes, blockWrites, denialRoutes>>

(***************************************************************************)
(* TokenBucketRateLimiter.is_allowed                                       *)
(***************************************************************************)
\* Token counts are multiples of 1/Scale(policy): refill_rate is
\* requests / window_seconds tokens a second, so one tick adds
\* policy.requests / Scale(policy) tokens.
Scale(policy) == policy.window_seconds * TicksPerSecond

\* HSET key tokens .. last_refill ..
HSet(v, tokens, last_refill) ==
    [v EXCEPT !.kind = "hash", !.tokens = tokens, !.last_refill = last_refill]

\* A faulty variant: a first request takes nothing from the full bucket.
TBFirstTokensFull(policy) == policy.burst_size * Scale(policy)

\* tokens = float(policy.burst_size - 1), for a key that does not exist
TBFirstTokens(policy) == (policy.burst_size - 1) * Scale(policy)

\* A faulty variant: the refill is not capped at burst_size.
TBRefilledUncapped(v, t, policy) ==
    v.tokens + (t - v.last_refill) * policy.requests

\* tokens = min(policy.burst_size, tokens + time_elapsed * refill_rate)
TBRefilled(v, t, policy) ==
    Min(policy.burst_size * Scale(policy),
        v.tokens + (t - v.last_refill) * policy.requests)

\* if tokens >= 1.0
TBHasToken(tokens, policy) == tokens >= Scale(policy)

\* remaining = int(tokens): int() truncates towards zero
TBRemaining(tokens, policy) ==
    IF tokens >= 0 THEN IntOf(tokens, Scale(policy))
    ELSE 0 - IntOf(0 - tokens, Scale(policy))

\* reset_time = int(now + (burst_size - tokens) / refill_rate), int(now) at rate 0
TBResetTime(t, tokens, policy) ==
    IF policy.requests > 0
    THEN IntOf(t * policy.requests + policy.burst_size * Scale(policy) - tokens,
               TicksPerSecond * policy.requests)
    ELSE IntOf(t, TicksPerSecond)

\* bucket_data = await self.redis.hgetall(key), and the code up to the pipeline:
\* the handler keeps the token count it computed from what it read.
TBRead(h) ==
    /\ hs[h].pc = "tb_read"
    /\ LET r == hs[h]
           v == db[TB_get_key(r.identifier, r.route)]
           refilled == TBRefilled(v, r.now, r.policy)
       IN  hs' = [hs EXCEPT ![h] =
                    IF v.kind = "none"
                    THEN [r EXCEPT !.pc = "tb_write",
                                   !.tokens = TBFirstTokens(r.policy),
                                   !.is_allowed = TRUE]
                    ELSE IF TBHasToken(refilled, r.policy)
                    THEN [r EXCEPT !.pc = "tb_write",
                                   !.tokens = refilled - Scale(r.policy),
                                   !.is_allowed = TRUE]
                    ELSE [r EXCEPT !.pc = "tb_write",
                                   !.tokens = refilled,
                                   !.is_allowed = FALSE]]
    /\ UNCHANGED <<now, db, config, redis_client, ncalls, history>>

\* The pipeline (HSET, EXPIRE) executed by the store at tick `at`.
TBPipeline(v, tokens, t, policy, at) ==
    ExpireAt(HSet(v, tokens, t), policy.window_seconds + 10, at)

\* await pipe.execute(), and the code up to the return.
TBWrite(h) ==
    /\ hs[h].pc = "tb_write"
    /\ LET r == hs[h]
           key == TB_get_key(r.identifier, r.route)
           r2 == [r EXCEPT !.remaining = TBRemaining(r.tokens, r.policy),
                           !.reset_time = TBResetTime(r.now, r.tokens, r.policy)]
       IN  /\ db' = [db EXCEPT ![key] = TBPipeline(db[key], r.tokens, r.now, r.policy, now)]
           /\ hs' = [hs EXCEPT ![h] = AfterLimiter(r2)]
           /\ decisions' = Returned(r2, key)
    /\ UNCHANGED <<now, config, redis_client, ncalls,
                   denialTimes, blockWrites, denialRoutes>>

\* await self.redis.hgetall(key) raises redis.RedisError: the call is outside
\* the try block, so the exception leaves is_allowed.
TBReadFails(h) ==
    /\ hs[h].pc = "tb_read"
    /\ hs' = [hs EXCEPT ![h] = Raised([hs[h] EXCEPT !.failed = TRUE])]
    /\ UNCHANGED <<now, db, config, redis_client, ncalls, history>>

\* except redis.RedisError: return True, policy.requests,
\*                                 int(now + policy.window_seconds)
TBFailOpen(r) ==
    [r EXCEPT !.failed = TRUE, !.is_allowed = TRUE,
              !.remaining = r.policy.requests,
              !.reset_time = IntOf(r.now + r.policy.window_seconds * TicksPerSecond,
                                   TicksPerSecond)]

\* await pipe.execute() raises redis.RedisError, the write done or not.
TBWriteFails(h) ==
    /\ hs[h].pc = "tb_write"
    /\ LET r == hs[h]
           key == TB_get_key(r.identifier, r.route)
           r2 == TBFailOpen(r)
       IN  /\ \E applied \in BOOLEAN :
                 db' = IF applied
                       THEN [db EXCEPT ![key] =
                               TBPipeline(db[key], r.tokens, r.now, r.policy, now)]
                       ELSE db
           /\ hs' = [hs EXCEPT ![h] = AfterLimiter(r2)]
           /\ decisions' = Returned(r2, key)
    /\ UNCHANGED <<now, config, redis_client, ncalls,
                   denialTimes, blockWrites, denialRoutes>>

(***************************************************************************)
(* reset(identifier, route) of either limiter                              *)
(***************************************************************************)
\* DEL key
Del(d, key) == [d EXCEPT ![key] = NoKey]

\* A faulty variant: reset clears everything stored for the identifier.
SW_resetIdentifier(d, identifier, route) ==
    [k \in DOMAIN d |->
        IF k \in { SW_get_key(identifier, r) : r \in Routes }
                   \cup { violation_key(identifier), block_key(identifier) }
        THEN NoKey ELSE d[k]]

\* SlidingWindowRateLimiter.reset: await self.redis.delete(self._get_key(...))
SW_reset(d, identifier, route) == Del(d, SW_get_key(identifier, route))

\* TokenBucketRateLimiter.reset
TB_reset(d, identifier, route) == Del(d, TB_get_key(identifier, route))

\* The key reset(identifier, route) of the limiter in use is about.
LimiterKey(identifier, route) ==
    IF algorithm = "token_bucket" THEN TB_get_key(identifier, route)
    ELSE SW_get_key(identifier, route)

\* An administrative caller calls limiter.reset(identifier, route).
StartReset(h, identifier, route) ==
    /\ FirstFree(h)
    /\ hs' = [hs EXCEPT ![h] = [Idle EXCEPT !.pc = "reset",
                                            !.via = "admin",
                                            !.identifier = identifier,
                                            !.route = route]]
    /\ UNCHANGED <<now, db, config, redis_client, ncalls, history>>

\* await self.redis.delete(key); deleted is the store's reply, which the code
\* does not look at.
Reset(h) ==
    /\ hs[h].pc = "reset"
    /\ LET r == hs[h]
       IN  /\ db' = IF algorithm = "token_bucket"
                    THEN TB_reset(db, r.identifier, r.route)
                    ELSE SW_reset(db, r.identifier, r.route)
           /\ hs' = [hs EXCEPT ![h] =
                        [r EXCEPT !.pc = "done",
                                  !.deleted =
                                     IF Exists(db[LimiterKey(r.identifier, r.route)])
                                     THEN 1 ELSE 0]]
    /\ UNCHANGED <<now, config, redis_client, ncalls, history>>

(***************************************************************************)
(* RateLimitMiddleware                                                     *)
(***************************************************************************)
\* dispatch(request): identifier and route are taken from the request.
StartDispatch(h, identifier, route) ==
    /\ FirstFree(h)
    /\ ncalls < MaxDispatch
    /\ ncalls' = ncalls + 1
    /\ hs' = [hs EXCEPT ![h] = [Idle EXCEPT !.pc = "is_blocked",
                                            !.via = "dispatch",
                                            !.identifier = identifier,
                                            !.route = route]]
    /\ UNCHANGED <<now, db, config, redis_client, history>>

\* A faulty variant: the blocked response tells the client to retry at once.
BlockedResponseRetryNow(r) ==
    [r EXCEPT !.pc = "done", !.status = "blocked", !.retry_after = 0]

\* _create_blocked_response(): 429 with retry_after = config.BLOCK_DURATION
BlockedResponse(r) ==
    [r EXCEPT !.pc = "done", !.status = "blocked", !.retry_after = BLOCK_DURATION]

\* A faulty variant: the block check of a blocked client renews the block.
IsBlockedRenewing(h) ==
    /\ hs[h].pc = "is_blocked"
    /\ LET key == block_key(hs[h].identifier)
       IN  IF get_client_raises
           THEN hs' = [hs EXCEPT ![h] = Raised(hs[h])] /\ UNCHANGED db
           ELSE IF Exists(db[key])
           THEN /\ hs' = [hs EXCEPT ![h] = BlockedResponse(hs[h])]
                /\ db' = [db EXCEPT ![key] = SetEx(db[key], BLOCK_DURATION, now)]
           ELSE hs' = [hs EXCEPT ![h] = [hs[h] EXCEPT !.pc = "limiter"]] /\ UNCHANGED db
    /\ UNCHANGED <<now, config, redis_client, ncalls, history>>

\* is_blocked = await self._is_blocked(identifier); if is_blocked: return ...
\* _is_blocked first takes the handle from redis_client.get_client().
IsBlocked(h) ==
    /\ hs[h].pc = "is_blocked"
    /\ hs' = [hs EXCEPT ![h] =
                IF get_client_raises THEN Raised(hs[h])
                ELSE IF Exists(db[block_key(hs[h].identifier)])
                THEN BlockedResponse(hs[h])
                ELSE [hs[h] EXCEPT !.pc = "limiter"]]
    /\ UNCHANGED <<now, db, config, redis_client, ncalls, history>>

\* await redis.exists(block_key) raises: _is_blocked and dispatch have no
\* handler for it.
IsBlockedFails(h) ==
    /\ hs[h].pc = "is_blocked"
    /\ ~get_client_raises
    /\ hs' = [hs EXCEPT ![h] = Raised([hs[h] EXCEPT !.failed = TRUE])]
    /\ UNCHANGED <<now, db, config, redis_client, ncalls, history>>

\* policy = config.get_policy_for_route(route); redis = redis_client.get_client();
\* limiter.is_allowed(...) starts.
EnterLimiter(h) ==
    /\ hs[h].pc = "limiter"
    /\ hs' = [hs EXCEPT ![h] =
                IF get_client_raises THEN Raised(hs[h])
                ELSE LimiterEntry(hs[h], get_policy_for_route(hs[h].route), now)]
    /\ UNCHANGED <<now, db, config, redis_client, ncalls, history>>

\* _record_violation starts: redis = redis_client.get_client(); now = time.time()
RecordViolationClock(h) ==
    /\ hs[h].pc = "rv_clock"
    /\ hs' = [hs EXCEPT ![h] =
                IF get_client_raises THEN Raised(hs[h])
                ELSE [hs[h] EXCEPT !.pc = "rv_txn", !.vnow = now]]
    /\ UNCHANGED <<now, db, config, redis_client, ncalls, history>>

\* A faulty variant: the prune leaves the violation whose timestamp is exactly
\* VIOLATION_WINDOW old in the log.
RVPipelineKeepingBoundary(v, t, at) ==
    LET pruned == ZRemRangeByScore(v, 0, t - VIOLATION_WINDOW * TicksPerSecond - 1)
        added == ZAdd(pruned, Str(t), t)
    IN  <<ExpireAt(added, VIOLATION_WINDOW, at), ZCard(added)>>

\* The violation pipeline (ZREMRANGEBYSCORE, ZADD, ZCARD, EXPIRE) with the
\* client's clock reading t, executed by the store at tick `at`:
\* <<value after, result of ZCARD>>.
RVPipeline(v, t, at) ==
    LET pruned == ZRemRangeByScore(v, 0, t - VIOLATION_WINDOW * TicksPerSecond)
        added == ZAdd(pruned, Str(t), t)
    IN  <<ExpireAt(added, VIOLATION_WINDOW, at), ZCard(added)>>

\* results = await pipe.execute(); violation_count = results[2]; the threshold
\* check decides whether _block_client is called.
RecordViolationTxn(h) ==
    /\ hs[h].pc = "rv_txn"
    /\ LET r == hs[h]
           key == violation_key(r.identifier)
           res == RVPipeline(db[key], r.vnow, now)
       IN  /\ db' = [db EXCEPT ![key] = res[1]]
           /\ hs' = [hs EXCEPT ![h] =
                        [r EXCEPT !.violation_count = res[2],
                                  !.pc = IF res[2] >= violation_threshold
                                         THEN "block_client" ELSE "respond"]]
           /\ denialTimes' = [denialTimes EXCEPT
                                ![r.identifier] = Append(@, r.vnow)]
           /\ denialRoutes' = [denialRoutes EXCEPT
                                 ![r.identifier] = Append(@, r.route)]
    /\ UNCHANGED <<now, config, redis_client, ncalls, decisions, blockWrites>>

\* results = await pipe.execute() raises in _record_violation, which has no
\* handler for it; the store may have run the transaction or not.
RecordViolationTxnFails(h) ==
    /\ hs[h].pc = "rv_txn"
    /\ LET r == hs[h]
           key == violation_key(r.identifier)
       IN  /\ \E applied \in BOOLEAN :
                 /\ db' = IF applied
                          THEN [db EXCEPT ![key] = RVPipeline(db[key], r.vnow, now)[1]]
                          ELSE db
                 /\ denialTimes' = IF applied
                                   THEN [denialTimes EXCEPT
                                           ![r.identifier] = Append(@, r.vnow)]
                                   ELSE denialTimes
                 /\ denialRoutes' = IF applied
                                    THEN [denialRoutes EXCEPT
                                            ![r.identifier] = Append(@, r.route)]
                                    ELSE denialRoutes
           /\ hs' = [hs EXCEPT ![h] = Raised([r EXCEPT !.failed = TRUE])]
    /\ UNCHANGED <<now, config, redis_client, ncalls, decisions, blockWrites>>

\* await redis.setex(...) raises in _block_client, the key written or not.
BlockClientFails(h) ==
    /\ hs[h].pc = "block_client"
    /\ ~get_client_raises
    /\ LET key == block_key(hs[h].identifier)
       IN  \E applied \in BOOLEAN :
             /\ db' = IF applied
                      THEN [db EXCEPT ![key] = SetEx(db[key], BLOCK_DURATION, now)]
                      ELSE db
             /\ blockWrites' = IF applied
                               THEN [blockWrites EXCEPT ![hs[h].identifier] = @ \cup {now}]
                               ELSE blockWrites
    /\ hs' = [hs EXCEPT ![h] = Raised([hs[h] EXCEPT !.failed = TRUE])]
    /\ UNCHANGED <<now, config, redis_client, ncalls,
                   decisions, denialTimes, denialRoutes>>

\* _block_client: redis = redis_client.get_client();
\* await redis.setex(block_key, config.BLOCK_DURATION, "blocked")
BlockClient(h) ==
    /\ hs[h].pc = "block_client"
    /\ IF get_client_raises
       THEN /\ hs' = [hs EXCEPT ![h] = Raised(hs[h])]
            /\ UNCHANGED <<db, blockWrites>>
       ELSE /\ LET key == block_key(hs[h].identifier)
               IN  db' = [db EXCEPT ![key] = SetEx(db[key], BLOCK_DURATION, now)]
            /\ hs' = [hs EXCEPT ![h] = [hs[h] EXCEPT !.pc = "respond"]]
            /\ blockWrites' = [blockWrites EXCEPT ![hs[h].identifier] = @ \cup {now}]
    /\ UNCHANGED <<now, config, redis_client, ncalls,
                   decisions, denialTimes, denialRoutes>>

\* _create_rate_limit_response(remaining=0, reset_time=reset_time,
\*                             retry_after=reset_time - int(time.time()))
Respond(h) ==
    /\ hs[h].pc = "respond"
    /\ hs' = [hs EXCEPT ![h] =
                [hs[h] EXCEPT !.pc = "done", !.status = "limited",
                              !.remaining = 0,
                              !.retry_after = hs[h].reset_time
                                                - IntOf(now, TicksPerSecond)]]
    /\ UNCHANGED <<now, db, config, redis_client, ncalls, history>>

\* The caller has its answer; the handler is free for the next request.
Finish(h) ==
    /\ hs[h].pc = "done"
    /\ hs' = [hs EXCEPT ![h] = Idle]
    /\ UNCHANGED <<now, db, config, redis_client, ncalls, history>>

\* Time passes; keys whose TTL has run out disappear.
Tick ==
    /\ now < MaxTime
    /\ now' = now + 1
    /\ db' = Sweep(db, now + 1)
    /\ UNCHANGED <<hs, config, redis_client, ncalls, history>>

InitStore ==
    /\ now = 0
    /\ db = [k \in AllKeys |-> NoKey]
    /\ hs = [h \in Handlers |-> Idle]
    /\ ncalls = 0
    /\ decisions = <<>>
    /\ denialTimes = [i \in Identifiers |-> <<>>]
    /\ denialRoutes = [i \in Identifiers |-> <<>>]
    /\ blockWrites = [i \in Identifiers |-> {}]
    /\ redis_client = Connected

(***************************************************************************)
(* SpecSWSeq: one caller at a time calls the sliding-window limiter        *)
(* directly, with one policy, for one identifier on either route.          *)
(***************************************************************************)
SWPolicies == { p \in Policies : p.burst_size = p.requests }

InitSW ==
    /\ InitStore
    /\ algorithm = "sliding_window"
    /\ violation_threshold = MaxThreshold
    /\ callPolicy \in SWPolicies

NextSWSeq ==
    \/ \E r \in Routes : CallLimiter(1, <<"A">>, r)
    \/ SWTxn(1)
    \/ Finish(1)
    \/ Tick

SpecSWSeq == InitSW /\ [][NextSWSeq]_vars

(***************************************************************************)
(* SpecSW: concurrent handlers call the sliding-window limiter directly    *)
(* for one key.  A handler reads its clock when it is called and its       *)
(* transaction runs at the store some time later, so transactions need not *)
(* run in the order of the clock readings.                                 *)
(***************************************************************************)
NextSW ==
    \/ \E h \in Handlers : CallLimiter(h, <<"A">>, RouteX)
    \/ \E h \in Handlers : SWTxn(h)
    \/ \E h \in Handlers : Finish(h)
    \/ Tick

SpecSW == InitSW /\ [][NextSW]_vars

(***************************************************************************)
(* SpecTBSeq, SpecTB: the same for the token-bucket limiter.               *)
(***************************************************************************)
InitTB ==
    /\ InitStore
    /\ algorithm = "token_bucket"
    /\ violation_threshold = MaxThreshold
    /\ callPolicy \in Policies

NextTBSeq ==
    \/ \E r \in Routes : CallLimiter(1, <<"A">>, r)
    \/ TBRead(1)
    \/ TBWrite(1)
    \/ Finish(1)
    \/ Tick

SpecTBSeq == InitTB /\ [][NextTBSeq]_vars

NextTB ==
    \/ \E h \in Handlers : CallLimiter(h, <<"A">>, RouteX)
    \/ \E h \in Handlers : TBRead(h)
    \/ \E h \in Handlers : TBWrite(h)
    \/ \E h \in Handlers : Finish(h)
    \/ Tick

SpecTB == InitTB /\ [][NextTB]_vars

(***************************************************************************)
(* SpecAnySeq: one caller at a time calls either limiter directly for one  *)
(* key, with any policy the limiter accepts: requests = 0 and              *)
(* burst_size = 0 included, and requests up to one more than MaxRequests.  *)
(* (window_seconds = 0 makes the token bucket divide by zero.)             *)
(***************************************************************************)
AllPolicies ==
    { RateLimitPolicy(r, w, b) : r \in 0 .. MaxRequests + 1, w \in 1 .. MaxWindow,
                                 b \in 0 .. MaxBurst }

InitAny ==
    /\ InitStore
    /\ algorithm \in {"sliding_window", "token_bucket"}
    /\ violation_threshold = MaxThreshold
    /\ callPolicy \in AllPolicies

NextAnySeq ==
    \/ CallLimiter(1, <<"A">>, RouteX)
    \/ SWTxn(1)
    \/ TBRead(1)
    \/ TBWrite(1)
    \/ Finish(1)
    \/ Tick

SpecAnySeq == InitAny /\ [][NextAnySeq]_vars

(***************************************************************************)
(* SpecTBLong: one caller at a time calls the token-bucket limiter for one *)
(* key under a policy with a long window, and between calls the caller may *)
(* stay away for a window or for the lifetime of the key                   *)
(* (window_seconds + 10), so that the key expires.                         *)
(***************************************************************************)
LongPolicies ==
    { RateLimitPolicy(r, LongWindow, b) : r \in 1 .. MaxRequests, b \in 1 .. MaxBurst }

\* A long time passes at once with no request in flight; keys whose TTL has run
\* out disappear.
Sleep ==
    /\ \A h \in Handlers : hs[h].pc = "idle"
    /\ now < (LongWindow + 10) * TicksPerSecond
    /\ \E d \in { LongWindow * TicksPerSecond, (LongWindow + 10) * TicksPerSecond } :
          /\ now' = now + d
          /\ db' = Sweep(db, now + d)
    /\ UNCHANGED <<hs, config, redis_client, ncalls, history>>

InitTBLong ==
    /\ InitStore
    /\ algorithm = "token_bucket"
    /\ violation_threshold = MaxThreshold
    /\ callPolicy \in LongPolicies

NextTBLong ==
    \/ CallLimiter(1, <<"A">>, RouteX)
    \/ TBRead(1)
    \/ TBWrite(1)
    \/ Finish(1)
    \/ Tick
    \/ Sleep

SpecTBLong == InitTBLong /\ [][NextTBLong]_vars

(***************************************************************************)
(* SpecMWSeq, SpecMW: requests pass through RateLimitMiddleware.dispatch,  *)
(* one at a time or handled concurrently.  The algorithm and the violation *)
(* threshold are fixed when the middleware is built.                       *)
(***************************************************************************)
InitMW ==
    /\ InitStore
    /\ algorithm \in {"sliding_window", "token_bucket"}
    /\ violation_threshold \in 1 .. MaxThreshold
    /\ callPolicy = DEFAULT_POLICY

Dispatch(h) ==
    \/ IsBlocked(h)
    \/ EnterLimiter(h)
    \/ SWTxn(h)
    \/ TBRead(h)
    \/ TBWrite(h)
    \/ RecordViolationClock(h)
    \/ RecordViolationTxn(h)
    \/ BlockClient(h)
    \/ Respond(h)
    \/ Finish(h)

NextMWSeq ==
    \/ \E r \in Routes : StartDispatch(1, <<"A">>, r)
    \/ Dispatch(1)
    \/ Tick

SpecMWSeq == InitMW /\ [][NextMWSeq]_vars

NextMW ==
    \/ \E h \in Handlers : ncalls < ConcCalls /\ StartDispatch(h, <<"A">>, RouteLogin)
    \/ \E h \in Handlers : Dispatch(h)
    \/ now < ConcTime /\ Tick

SpecMW == InitMW /\ [][NextMW]_vars

(***************************************************************************)
(* SpecMWPair: two clients send requests through the middleware one at a   *)
(* time, client A on either route and client B on the login route.         *)
(***************************************************************************)
\* dispatch(request), in the longer runs of two clients.
StartDispatchPair(h, identifier, route) ==
    /\ FirstFree(h)
    /\ ncalls < PairDispatch
    /\ ncalls' = ncalls + 1
    /\ hs' = [hs EXCEPT ![h] = [Idle EXCEPT !.pc = "is_blocked",
                                            !.via = "dispatch",
                                            !.identifier = identifier,
                                            !.route = route]]
    /\ UNCHANGED <<now, db, config, redis_client, history>>

InitMWPair ==
    /\ InitStore
    /\ algorithm \in {"sliding_window", "token_bucket"}
    /\ violation_threshold = MaxThreshold
    /\ callPolicy = DEFAULT_POLICY

NextMWPair ==
    \/ \E r \in Routes : StartDispatchPair(1, <<"A">>, r)
    \/ StartDispatchPair(1, <<"B">>, RouteLogin)
    \/ Dispatch(1)
    \/ now < PairTime /\ Tick

SpecMWPair == InitMWPair /\ [][NextMWPair]_vars

(***************************************************************************)
(* SpecFailSeq: one caller at a time calls either limiter directly, and    *)
(* any store call may fail with redis.RedisError.                          *)
(***************************************************************************)
InitFail ==
    /\ InitStore
    /\ algorithm \in {"sliding_window", "token_bucket"}
    /\ violation_threshold = MaxThreshold
    /\ callPolicy \in Policies

NextFailSeq ==
    \/ CallLimiter(1, <<"A">>, RouteX)
    \/ SWTxn(1)
    \/ SWTxnFails(1)
    \/ TBRead(1)
    \/ TBReadFails(1)
    \/ TBWrite(1)
    \/ TBWriteFails(1)
    \/ Finish(1)
    \/ Tick

SpecFailSeq == InitFail /\ [][NextFailSeq]_vars

(***************************************************************************)
(* SpecMWFail: requests pass through the middleware one at a time, and any *)
(* store call on the way may fail.                                         *)
(***************************************************************************)
DispatchFails(h) ==
    \/ IsBlockedFails(h)
    \/ SWTxnFails(h)
    \/ TBReadFails(h)
    \/ TBWriteFails(h)
    \/ RecordViolationTxnFails(h)
    \/ BlockClientFails(h)

NextMWFail ==
    \/ ncalls < ConcCalls /\ StartDispatch(1, <<"A">>, RouteLogin)
    \/ Dispatch(1)
    \/ DispatchFails(1)
    \/ now < ConcTime /\ Tick

SpecMWFail == InitMW /\ [][NextMWFail]_vars

(***************************************************************************)
(* SpecLifecycle: the application connects and disconnects its RedisClient *)
(* while requests pass through the middleware one at a time.  The instance *)
(* starts as constructed, before any connect().                            *)
(***************************************************************************)
(***************************************************************************)
(* SpecMWAny: requests of one client are handled concurrently, and any     *)
(* store call on the way may fail.                                         *)
(***************************************************************************)
\* Two requests at most are in flight at a time.
AnyHandlers == { h \in Handlers : h <= 2 }

NextMWAny ==
    \/ \E h \in AnyHandlers :
          ncalls < AnyCalls /\ StartDispatch(h, <<"A">>, RouteLogin)
    \/ \E h \in AnyHandlers : Dispatch(h)
    \/ \E h \in AnyHandlers : DispatchFails(h)
    \/ now < AnyTime /\ Tick

SpecMWAny == InitMW /\ [][NextMWAny]_vars

(***************************************************************************)
(* SpecKeys: one caller at a time calls either limiter directly, with any  *)
(* identifier and any route path built from the characters the keys treat  *)
(* specially.                                                              *)
(***************************************************************************)
\* The strings of 1 to n characters of the set S.
Strings(S, n) == UNION { [1 .. m -> S] : m \in 1 .. n }

\* get_client_ip(): a header value or the peer's address (an IPv6 address
\* contains ':').
KeyIdentifiers == Strings({"A", ":"}, MaxKeyLen)

\* request.url.path: '/' followed by any characters.
KeyRoutes ==
    {<<"/">>} \cup { <<"/">> \o s : s \in Strings({"/", ":", "_"}, MaxKeyLen) }

InitKeys ==
    /\ now = 0
    /\ db = [k \in { SW_get_key(i, r) : i \in KeyIdentifiers, r \in KeyRoutes }
                     \cup { TB_get_key(i, r) : i \in KeyIdentifiers, r \in KeyRoutes }
                |-> NoKey]
    /\ hs = [h \in Handlers |-> Idle]
    /\ ncalls = 0
    /\ decisions = <<>>
    /\ denialTimes = [i \in Identifiers |-> <<>>]
    /\ denialRoutes = [i \in Identifiers |-> <<>>]
    /\ blockWrites = [i \in Identifiers |-> {}]
    /\ redis_client = Connected
    /\ algorithm \in {"sliding_window", "token_bucket"}
    /\ violation_threshold = MaxThreshold
    /\ callPolicy = AUTH_POLICY

NextKeys ==
    \/ \E i \in KeyIdentifiers, r \in KeyRoutes :
          ncalls < KeyCalls /\ CallLimiter(1, i, r)
    \/ SWTxn(1)
    \/ TBRead(1)
    \/ TBWrite(1)
    \/ Finish(1)
    \/ now < AnyTime /\ Tick

SpecKeys == InitKeys /\ [][NextKeys]_vars

InitLifecycle ==
    /\ now = 0
    /\ db = [k \in AllKeys |-> NoKey]
    /\ hs = [h \in Handlers |-> Idle]
    /\ ncalls = 0
    /\ decisions = <<>>
    /\ denialTimes = [i \in Identifiers |-> <<>>]
    /\ denialRoutes = [i \in Identifiers |-> <<>>]
    /\ blockWrites = [i \in Identifiers |-> {}]
    /\ redis_client = NotConnected
    /\ algorithm \in {"sliding_window", "token_bucket"}
    /\ violation_threshold \in 1 .. MaxThreshold
    /\ callPolicy = DEFAULT_POLICY

NextLifecycle ==
    \/ ConnectStart
    \/ ConnectPing
    \/ DisconnectStart
    \/ DisconnectEnd
    \/ ncalls < ConcCalls /\ StartDispatch(1, <<"A">>, RouteLogin)
    \/ Dispatch(1)
    \/ now < ConcTime /\ Tick

SpecLifecycle == InitLifecycle /\ [][NextLifecycle]_vars

(***************************************************************************)
(* SpecAdmin: requests pass through the middleware one at a time, and      *)
(* between them an administrative caller may reset a limiter key.  The     *)
(* first recorded violation blocks.                                        *)
(***************************************************************************)
InitAdmin ==
    /\ InitStore
    /\ algorithm \in {"sliding_window", "token_bucket"}
    /\ violation_threshold = 1
    /\ callPolicy = DEFAULT_POLICY

NextAdmin ==
    \/ \E r \in Routes : ncalls < ConcCalls /\ StartDispatch(1, <<"A">>, r)
    \/ Dispatch(1)
    \/ \E r \in Routes : StartReset(1, <<"A">>, r)
    \/ Reset(1)
    \/ now < ConcTime /\ Tick

SpecAdmin == InitAdmin /\ [][NextAdmin]_vars

(***************************************************************************)
(* Properties of the limiters, read off the decisions made so far.         *)
(***************************************************************************)
\* The decisions made for one limiter key, in order of execution.
CallsOn(key) == SelectSeq(decisions, LAMBDA d : d.key = key)

WindowTicks(p) == p.window_seconds * TicksPerSecond

\* The first n calls of c all lie within a span of `width` ticks, ends included.
SpanAtMost(c, n, width) == \A a, b \in 1 .. n : c[b].t - c[a].t <= width

SWKeys == { SW_get_key(i, r) : i \in Identifiers, r \in Routes }

\* C1: starting from an empty log, in a sequential run of at most
\* policy.requests calls to one sliding-window key whose timestamps lie within
\* one span of window_seconds, every call is allowed.
C1_WithinQuotaAllowed ==
    \A k \in SWKeys :
        LET c == CallsOn(k)
        IN  \A i \in 1 .. Len(c) :
                (i <= c[i].policy.requests /\ SpanAtMost(c, i, WindowTicks(c[i].policy)))
                    => c[i].allowed

\* C1 witness: a key has taken policy.requests >= 2 calls at different times
\* within one window, and all of them were allowed.
C1_Witness ==
    \E k \in SWKeys :
        LET c == CallsOn(k)
        IN  /\ Len(c) >= 2
            /\ Len(c) = c[1].policy.requests
            /\ c[1].t # c[2].t
            /\ SpanAtMost(c, Len(c), WindowTicks(c[1].policy))
            /\ \A i \in 1 .. Len(c) : c[i].allowed

\* C2: in a sequential run, call number policy.requests + 1 to one key within
\* one span of window_seconds (from an empty log) is denied, whatever the
\* timestamps inside the window, equal ones included.
C2_CallPastQuotaDenied ==
    \A k \in SWKeys :
        LET c == CallsOn(k)
        IN  \A i \in 1 .. Len(c) :
                (i = c[i].policy.requests + 1
                   /\ SpanAtMost(c, i, WindowTicks(c[i].policy) - 1))
                    => ~c[i].allowed

\* The allowed calls of c with a timestamp in [from, from + width).
AllowedIn(c, from, width) ==
    { i \in 1 .. Len(c) : c[i].allowed /\ from <= c[i].t /\ c[i].t < from + width }

\* C3: under concurrent handlers on one key, the allowed requests whose
\* timestamps lie within any span of window_seconds never number more than
\* policy.requests.
C3_HardCapInEveryWindow ==
    \A k \in SWKeys :
        LET c == CallsOn(k)
        IN  \A from \in 0 .. MaxTime :
                Len(c) > 0 =>
                    Cardinality(AllowedIn(c, from, WindowTicks(c[1].policy)))
                        <= c[1].policy.requests

C12_RemainingCountsCalls ==
    \A k \in SWKeys :
        LET c == CallsOn(k)
        IN  \A i \in 1 .. Len(c) :
                /\ (i <= c[i].policy.requests
                      /\ SpanAtMost(c, i, WindowTicks(c[i].policy) - 1))
                       => c[i].remaining = c[i].policy.requests - i
                /\ ~c[i].allowed => c[i].remaining = 0
                /\ (/\ c[i].policy.requests >= 1
                    /\ \A j \in 1 .. i - 1 :
                          c[j].t + WindowTicks(c[i].policy) <= c[i].t)
                       => c[i].remaining = c[i].policy.requests - 1

\* C20: every sliding-window call, allowed or denied, adds exactly one new
\* entry to the log of its key: after the call the log holds one entry more
\* than the pruned log held, also when an earlier call had the same timestamp.
C20_EveryCallAddsOneEntry ==
    [][\A h \in Handlers :
          (hs[h].pc = "sw_txn" /\ hs'[h].pc # "sw_txn") =>
              LET key == SW_get_key(hs[h].identifier, hs[h].route)
              IN  ZCard(db'[key])
                      = ZCard(SWPruned(db[key], hs[h].now, hs[h].policy)) + 1]_vars

\* C21: the count read by a sliding-window access at time t is the number of
\* logged entries with score >= t - window_seconds: entries scored below that
\* are removed, and an entry scored exactly t - window_seconds is kept and
\* counted.
C21_BoundaryEntryCounted ==
    [][\A h \in Handlers :
          (hs[h].pc = "sw_txn" /\ hs'[h].pc # "sw_txn") =>
              LET key == SW_get_key(hs[h].identifier, hs[h].route)
                  window_start == hs[h].now - WindowTicks(hs[h].policy)
                  kept == { e \in db[key].z : e.score >= window_start }
              IN  /\ hs'[h].current_count = Cardinality(kept)
                  /\ kept \subseteq db'[key].z]_vars

\* C22 as stated: under sequential access the log of a key never holds more
\* than policy.requests entries.
C22_LogNeverExceedsRequests ==
    \A k \in SWKeys : ZCard(db[k]) <= callPolicy.requests

\* C22 amended: under sequential access the log of a key holds at most
\* policy.requests entries right after every allowed call (denied calls are
\* logged as well, so the log may hold more after a denial).
C22_LogWithinRequestsAfterAllowed ==
    [][\A h \in Handlers :
          (hs[h].pc = "sw_txn" /\ hs'[h].pc # "sw_txn" /\ hs'[h].is_allowed) =>
              ZCard(db'[SW_get_key(hs[h].identifier, hs[h].route)])
                  <= hs[h].policy.requests]_vars

\* C22 witness: an allowed call has just filled the log of its key up to
\* policy.requests >= 2 entries.
C22_Witness ==
    \E h \in Handlers :
        /\ hs[h].pc = "done"
        /\ hs[h].via = "direct"
        /\ hs[h].is_allowed
        /\ hs[h].policy.requests >= 2
        /\ hs[h].current_count = hs[h].policy.requests - 1
        /\ ZCard(db[SW_get_key(hs[h].identifier, hs[h].route)]) = hs[h].policy.requests

TBKeys == { TB_get_key(i, r) : i \in Identifiers, r \in Routes }

\* C4: under concurrent handlers on one token-bucket key, read, computation and
\* write-back are one atomic step: with no time elapsing, a fresh key allows at
\* most burst_size calls.
C4_NoMoreAllowedThanTokens ==
    \A k \in TBKeys :
        LET c == CallsOn(k)
        IN  (now = 0 /\ Len(c) > 0) =>
                Cardinality({ i \in 1 .. Len(c) : c[i].allowed }) <= c[1].policy.burst_size

\* C10: sequential calls to a fresh token-bucket key with no time elapsing: call
\* k <= burst_size is allowed with remaining = burst_size - k, and call
\* burst_size + 1 is denied.
C10_BurstThenDenied ==
    \A k \in TBKeys :
        LET c == CallsOn(k)
        IN  \A i \in 1 .. Len(c) :
                c[i].t = c[1].t =>
                    /\ i <= c[i].policy.burst_size =>
                          c[i].allowed /\ c[i].remaining = c[i].policy.burst_size - i
                    /\ i = c[i].policy.burst_size + 1 => ~c[i].allowed

\* C10 witness: a key with burst_size >= 2 has taken burst_size + 1 calls at one
\* instant, and the last was denied.
C10_Witness ==
    \E k \in TBKeys :
        LET c == CallsOn(k)
        IN  /\ Len(c) >= 3
            /\ Len(c) = c[1].policy.burst_size + 1
            /\ c[Len(c)].t = c[1].t
            /\ ~c[Len(c)].allowed

\* C11 as stated: a call made window_seconds or more after the previous call to
\* its token-bucket key is allowed and reports remaining = burst_size - 1,
\* whatever the bucket held before.
C11_FullAfterWindow ==
    \A k \in TBKeys :
        LET c == CallsOn(k)
        IN  \A i \in 2 .. Len(c) :
                c[i].t - c[i - 1].t >= WindowTicks(c[i].policy)
                    => c[i].allowed /\ c[i].remaining = c[i].policy.burst_size - 1

\* C11 amended: with burst_size >= 1, a call made window_seconds or more after
\* the previous call to its key is allowed and reports remaining =
\* burst_size - 1 when the tokens left by the previous call plus
\* policy.requests reach burst_size (always so when requests >= burst_size).
C11_FullAfterWindowIfRateCovers ==
    \A k \in TBKeys :
        LET c == CallsOn(k)
        IN  \A i \in 2 .. Len(c) :
                (/\ c[i].policy.burst_size >= 1
                 /\ c[i].t - c[i - 1].t >= WindowTicks(c[i].policy)
                 /\ c[i - 1].tokens + c[i].policy.requests * Scale(c[i].policy)
                       >= c[i].policy.burst_size * Scale(c[i].policy))
                    => c[i].allowed /\ c[i].remaining = c[i].policy.burst_size - 1

\* C11 witness: a bucket that was emptied (a call was denied) takes a call
\* window_seconds after the last one and allows it with remaining =
\* burst_size - 1.
C11_Witness ==
    \E k \in TBKeys :
        LET c == CallsOn(k)
        IN  \E i \in 2 .. Len(c) :
                /\ ~c[i - 1].allowed
                /\ c[i].t - c[i - 1].t >= WindowTicks(c[i].policy)
                /\ c[i].allowed
                /\ c[i].remaining = c[i].policy.burst_size - 1

\* C23: in every token-bucket state written to the store,
\* 0 <= tokens <= burst_size, for every policy (burst_size = 0 included).
C23_StoredTokensWithinBucket ==
    \A k \in TBKeys :
        Exists(db[k]) =>
            /\ 0 <= db[k].tokens
            /\ db[k].tokens <= callPolicy.burst_size * Scale(callPolicy)

\* C24: between two successive calls to a token-bucket key at times t1 < t2,
\* the tokens available to the second call are min(burst_size, tokens stored
\* after the first + (t2 - t1) * requests / window_seconds), also when the
\* key's TTL expires between the two calls.
C24_TokensRiseOnlyByRefill ==
    \A k \in TBKeys :
        LET c == CallsOn(k)
        IN  \A i \in 2 .. Len(c) :
                c[i - 1].t < c[i].t =>
                    c[i].tokens + (IF c[i].allowed THEN Scale(c[i].policy) ELSE 0)
                        = Min(c[i].policy.burst_size * Scale(c[i].policy),
                              c[i - 1].tokens
                                + (c[i].t - c[i - 1].t) * c[i].policy.requests)

\* C14: when a store call made by a limiter's check fails, the check does not
\* raise and returns allowed = true, remaining = policy.requests and
\* reset_at = now + window_seconds.
C14_LimiterFailsOpen ==
    \A h \in Handlers :
        (hs[h].pc = "done" /\ hs[h].via = "direct" /\ hs[h].failed) =>
            /\ hs[h].status # "error"
            /\ hs[h].is_allowed
            /\ hs[h].remaining = hs[h].policy.requests
            /\ hs[h].reset_time = SWResetTime(hs[h].now, hs[h].policy)

\* The fail-open answer has been returned after a failed transaction of the
\* sliding window, and after a failed write of the token bucket.
C14_FailOpenReached ==
    \E h \in Handlers :
        /\ hs[h].pc = "done" /\ hs[h].via = "direct" /\ hs[h].failed
        /\ hs[h].status # "error"
        /\ hs[h].is_allowed
        /\ hs[h].remaining = hs[h].policy.requests

\* C18: every decision returned by either limiter has remaining >= 0, for every
\* policy (burst_size = 0 and requests = 0 included) and every sequence of
\* calls.
C18_RemainingNonNegative ==
    \A i \in 1 .. Len(decisions) : decisions[i].remaining >= 0

\* A reset deletes the limiter key of its pair and leaves every other key as
\* it was: the other limiter keys, the violation log, the block key.
ResetStep ==
    \A h \in Handlers :
        (hs[h].pc = "reset" /\ hs'[h].pc = "done") =>
            LET key == LimiterKey(hs[h].identifier, hs[h].route)
            IN  /\ db'[key] = NoKey
                /\ \A k \in AllKeys \ {key} : db'[k] = db[k]

\* A limiter call that finds no key answers as on a first call: an empty
\* window (count 0), or a full bucket less the token it takes.
FreshCallStep ==
    \A h \in Handlers :
        LET r == hs[h]
        IN  /\ (r.pc = "sw_txn" /\ hs'[h].pc # "sw_txn"
                   /\ ~Exists(db[SW_get_key(r.identifier, r.route)]))
                  => /\ hs'[h].current_count = 0
                     /\ hs'[h].is_allowed = (r.policy.requests > 0)
                     /\ hs'[h].remaining = Max(0, r.policy.requests - 1)
            /\ (r.pc = "tb_read" /\ hs'[h].pc # "tb_read"
                   /\ ~Exists(db[TB_get_key(r.identifier, r.route)]))
                  => /\ hs'[h].is_allowed
                     /\ hs'[h].tokens = (r.policy.burst_size - 1) * Scale(r.policy)

\* C13: reset(identifier, route) deletes only the limiter key of that pair, so
\* that the call that follows for the pair finds no key and answers as on a
\* key that never existed, while the identifier's violation log and block key
\* and every other limiter key are left unchanged.
C13_ResetDeletesOnlyLimiterKey == [][ResetStep /\ FreshCallStep]_vars

\* C13 witness: a reset has just deleted an existing limiter key of an
\* identifier that has a violation log, a block key and another limiter key.
C13_Witness ==
    \E h \in Handlers :
        /\ hs[h].pc = "done"
        /\ hs[h].via = "admin"
        /\ hs[h].deleted = 1
        /\ Exists(db[violation_key(hs[h].identifier)])
        /\ Exists(db[block_key(hs[h].identifier)])
        /\ \E r \in Routes \ {hs[h].route} : Exists(db[LimiterKey(hs[h].identifier, r)])

(***************************************************************************)
(* Properties of violation tracking and blocking.                          *)
(***************************************************************************)
\* C17: on every limiter denial the retry_after returned to the caller is
\* reset_at - now floored at 0, hence never negative, whatever time passes
\* between the limiter's clock read and the clock read of the response.
C17_RetryAfterFlooredAtZero ==
    [][\A h \in Handlers :
          (hs[h].pc = "respond" /\ hs'[h].pc = "done") =>
              hs'[h].retry_after
                  = Max(0, hs[h].reset_time - IntOf(now, TicksPerSecond))]_vars

\* No connection is established and no connect() or disconnect() is running:
\* before connect, after disconnect, after a connect whose test failed.
NoConnection == redis_client.pc = "idle" /\ ~redis_client.established

\* An admission attempted without a connection fails at once, before any
\* store command.
AdmissionWithoutConnectionStep ==
    \A h \in Handlers :
        (NoConnection /\ hs[h].pc = "is_blocked" /\ hs'[h].pc # "is_blocked")
            => hs'[h].status = "error" /\ db' = db

\* C16: get_client raises in every state in which no store connection has been
\* successfully established (before connect, after disconnect, after a connect
\* whose connection test failed), and an admission attempted in such a state
\* fails immediately without issuing a store command; after a successful
\* connect get_client returns the handle.
C16_HandleOnlyWhenConnected ==
    /\ [](NoConnection => get_client_raises)
    /\ []((redis_client.pc = "idle" /\ redis_client.established) => ~get_client_raises)
    /\ [][AdmissionWithoutConnectionStep]_vars

\* C15: a store failure at any store call on the admission path never leaves
\* dispatch as an error: the request completes with a decision, and a request
\* that met a store failure is allowed.
C15_NoErrorOnStoreFailure ==
    \A h \in Handlers :
        (hs[h].pc = "done" /\ hs[h].via = "dispatch")
            => /\ hs[h].status # "error"
               /\ hs[h].failed => hs[h].status = "ok"

BlockTicks == BLOCK_DURATION * TicksPerSecond

\* No handler is between the violation transaction and the block write.
NoBlockPending == \A h \in Handlers : hs[h].pc # "block_client"

\* C5: for an identifier that starts with no block and no violations, with its
\* denials recorded one after the other within violation_window seconds, the
\* block key is absent after each of the first violation_threshold - 1 denials
\* and present, with TTL block_duration, after denial number
\* violation_threshold (the count compared is the one after the insert).
C5_BlockAtThreshold ==
    \A i \in Identifiers :
        LET d == denialTimes[i]
            n == Len(d)
        IN  (/\ NoBlockPending
             /\ n >= 1
             /\ d[n] - d[1] < VIOLATION_WINDOW * TicksPerSecond)
                =>  /\ n < violation_threshold => blockWrites[i] = {}
                    /\ n = violation_threshold =>
                          \E at \in blockWrites[i] :
                              now < at + BlockTicks =>
                                  /\ Exists(db[block_key(i)])
                                  /\ db[block_key(i)].exp = at + BlockTicks

\* The block key of an identifier exists exactly during block_duration from
\* its (latest) write.
BlockKeyLifetime ==
    \A i \in Identifiers :
        Exists(db[block_key(i)]) <=> \E at \in blockWrites[i] : now < at + BlockTicks

\* What the block check of a request does: with the key present the request is
\* answered at once, denied with retry_after = block_duration, and nothing is
\* stored; with the key absent the request goes on to the limiter.
BlockCheckStep ==
    \A h \in Handlers :
        (hs[h].pc = "is_blocked" /\ hs'[h].pc # "is_blocked") =>
            IF Exists(db[block_key(hs[h].identifier)])
            THEN /\ hs'[h].pc = "done"
                 /\ hs'[h].status = "blocked"
                 /\ hs'[h].retry_after = BLOCK_DURATION
                 /\ db' = db
            ELSE hs'[h].pc = "limiter"

\* C6: while the block key of an identifier exists, every admission for it, on
\* any route and whatever the limiter state, is denied with retry_after =
\* block_duration; once block_duration has passed since the block was written
\* the key is gone and the next request is evaluated by the limiter.
C6_BlockedUntilExpiry == []BlockKeyLifetime /\ [][BlockCheckStep]_vars

\* C6 witness: a request is answered "blocked" on a route whose limiter key
\* does not exist, so that the limiter would have allowed it.
C6_Witness ==
    \E h \in Handlers :
        /\ hs[h].pc = "done"
        /\ hs[h].status = "blocked"
        /\ hs[h].retry_after = BLOCK_DURATION
        /\ ~Exists(db[SW_get_key(hs[h].identifier, hs[h].route)])
        /\ ~Exists(db[TB_get_key(hs[h].identifier, hs[h].route)])

\* A request goes on to the limiter after a block of its identifier has expired.
C6_AfterExpiry ==
    \E h \in Handlers :
        /\ hs[h].pc = "limiter"
        /\ blockWrites[hs[h].identifier] # {}

\* What a request handled while its identifier is blocked does: taking it up
\* stores nothing, and its block check, finding the key, ends the handling
\* with the store and the violation and block records exactly as they were.
BlockedRequestStep ==
    \A h \in Handlers :
        /\ (hs[h].pc = "idle" /\ hs'[h].via = "dispatch")
              => hs'[h].pc = "is_blocked" /\ db' = db
        /\ (/\ hs[h].pc = "is_blocked"
            /\ hs'[h].pc # "is_blocked"
            /\ Exists(db[block_key(hs[h].identifier)]))
              => /\ hs'[h].pc = "done"
                 /\ db' = db
                 /\ denialTimes' = denialTimes
                 /\ blockWrites' = blockWrites
        /\ (hs'[h].status = "blocked" /\ hs[h].status # "blocked")
              => hs[h].pc = "is_blocked"

\* C19: a request handled while its identifier is blocked changes no store
\* state: the limiter is not invoked (no log entry, no token taken, no TTL
\* refreshed), no violation is recorded, and the block key and its TTL are
\* left as they were.
C19_BlockedRequestStoresNothing == [][BlockedRequestStep]_vars

\* C19 witness: a request has been answered "blocked" while the limiter key of
\* its pair and the violation log of its identifier exist.
C19_Witness ==
    \E h \in Handlers :
        /\ hs[h].pc = "done"
        /\ hs[h].status = "blocked"
        /\ Exists(db[block_key(hs[h].identifier)])
        /\ Exists(db[LimiterKey(hs[h].identifier, hs[h].route)])
        /\ Exists(db[violation_key(hs[h].identifier)])

\* C7: once written, a block key's expiry time is never moved while the key
\* exists, also by a denial of a request that passed the block check before
\* the block was written.
C7_BlockNeverRewritten ==
    [][\A i \in Identifiers :
          (Exists(db[block_key(i)]) /\ Exists(db'[block_key(i)]))
              => db'[block_key(i)].exp = db[block_key(i)].exp]_vars

\* C8: the violation count and the block write are one atomic step: once a
\* violation transaction has seen a count >= violation_threshold, no request
\* of that identifier whose block check runs afterwards reaches the limiter
\* until the block expires.
C8_NoAdmissionAfterThreshold ==
    [][\A h, g \in Handlers :
          (/\ hs[g].pc = "block_client"
           /\ hs[h].pc = "is_blocked"
           /\ hs[h].identifier = hs[g].identifier)
              => hs'[h].pc # "limiter"]_vars

\* The denials of identifier i recorded so far that are less than
\* VIOLATION_WINDOW older than the clock reading t.
DenialsInWindow(i, t) ==
    { j \in 1 .. Len(denialTimes[i]) :
        denialTimes[i][j] > t - VIOLATION_WINDOW * TicksPerSecond }

\* C25: the violation count compared with the threshold at time t counts only
\* the denials of that identifier with timestamp in the trailing
\* violation_window seconds, so that a block is written only when at least
\* violation_threshold denials lie in that window: violation_threshold - 1
\* denials followed, more than violation_window seconds later, by one more
\* denial do not produce a block.
C25_CountOnlyDenialsInWindow ==
    \A h \in Handlers :
        (hs[h].via = "dispatch" /\ hs[h].pc \in {"block_client", "respond"}) =>
            /\ hs[h].violation_count
                  <= Cardinality(DenialsInWindow(hs[h].identifier, hs[h].vnow))
            /\ hs[h].pc = "block_client" =>
                  Cardinality(DenialsInWindow(hs[h].identifier, hs[h].vnow))
                      >= violation_threshold

\* C25 witness: a denial has been counted while the log still held a denial
\* that was violation_window old or older; with it the threshold would have
\* been reached, and no block is written.
C25_Witness ==
    \E h \in Handlers :
        /\ hs[h].via = "dispatch" /\ hs[h].pc = "respond"
        /\ hs[h].violation_count = 1
        /\ violation_threshold = 2
        /\ Len(denialTimes[hs[h].identifier]) = 2
        /\ denialTimes[hs[h].identifier][1]
              <= hs[h].vnow - VIOLATION_WINDOW * TicksPerSecond
        /\ blockWrites[hs[h].identifier] = {}

\* What a step does to the violation log and the block of the identifiers:
\* the block check of a request finds the block of its identifier whatever
\* the route of the request and of the denials that wrote it; a recorded
\* denial keeps the entries of its identifier's log that are inside the
\* window, whatever their routes, and counts them all; and the violation
\* log and the block of an identifier change only in a step of a request of
\* that identifier, or when time passes.
PerIdentifierStep ==
    /\ \A h \in Handlers :
          LET i == hs[h].identifier
          IN  /\ (hs[h].pc = "is_blocked" /\ hs'[h].pc # "is_blocked") =>
                    (hs'[h].status = "blocked"
                        <=> \E at \in blockWrites[i] :
                               now < at + BLOCK_DURATION * TicksPerSecond)
              /\ (hs[h].pc = "rv_txn" /\ hs'[h].pc # "rv_txn") =>
                    /\ { e \in db[violation_key(i)].z :
                           e.score > hs[h].vnow - VIOLATION_WINDOW * TicksPerSecond }
                          \subseteq db'[violation_key(i)].z
                    /\ hs'[h].violation_count = ZCard(db'[violation_key(i)])
                    /\ \A k \in AllKeys \ {violation_key(i)} : db'[k] = db[k]
              /\ (hs[h].pc = "block_client" /\ hs'[h].pc # "block_client") =>
                    /\ Exists(db'[block_key(i)])
                    /\ \A k \in AllKeys \ {block_key(i)} : db'[k] = db[k]
    /\ \A i \in Identifiers :
          (\/ db'[violation_key(i)] # db[violation_key(i)]
           \/ db'[block_key(i)] # db[block_key(i)]
           \/ denialTimes'[i] # denialTimes[i]
           \/ blockWrites'[i] # blockWrites[i])
              => \/ hs' = hs /\ now' > now
                 \/ \E h \in Handlers : hs'[h] # hs[h] /\ hs[h].identifier = i

\* C26: violations and blocks are per identifier and not per route: denials
\* of one identifier on different routes accumulate in the same violation log
\* towards one threshold, a block triggered by denials on one route denies
\* that identifier's requests on every route, and the violation log and the
\* block of any other identifier are unaffected.
C26_ViolationsAndBlocksPerIdentifier == [][PerIdentifierStep]_vars

\* C26 witness: client A, denied once on the login route and then once on
\* the other route, has reached the threshold with these two denials and is
\* refused on the login route because of the block, while client B, served
\* in the meantime, has neither a violation log nor a block.
C26_Witness ==
    \E h \in Handlers :
        /\ hs[h].pc = "done" /\ hs[h].status = "blocked"
        /\ hs[h].identifier = <<"A">> /\ hs[h].route = RouteLogin
        /\ denialRoutes[<<"A">>] = <<RouteLogin, RouteX>>
        /\ violation_threshold = 2
        /\ blockWrites[<<"A">>] # {}
        /\ Exists(db[LimiterKey(<<"B">>, RouteLogin)])
        /\ ~Exists(db[violation_key(<<"B">>)])
        /\ ~Exists(db[block_key(<<"B">>)])

\* What a request that has its answer has recorded: a denied one its violation
\* and, the count at or over the threshold, the block; an allowed or a blocked
\* one nothing.
RecordedBeforeAnswer ==
    \A h \in Handlers :
        (hs[h].via = "dispatch" /\ hs[h].pc = "done") =>
            LET r == hs[h]
                i == r.identifier
            IN  /\ r.status = "limited" =>
                    /\ ~r.is_allowed
                    /\ r.violation_count >= 1
                    /\ \E j \in 1 .. Len(denialTimes[i]) : denialTimes[i][j] = r.vnow
                    /\ r.violation_count >= violation_threshold =>
                          \E at \in blockWrites[i] : at >= r.vnow
                /\ r.status \in {"ok", "blocked"} => r.violation_count = 0
                /\ (r.status = "ok" /\ r.failed) => r.is_allowed

\* How violations get recorded: only by the violation transaction of a request
\* the limiter has denied, one record for each transaction, and a request
\* runs that transaction at most once, between the limiter's answer and its
\* own.
RecordStep ==
    /\ \A i \in Identifiers :
          denialTimes'[i] # denialTimes[i] =>
              \E h \in Handlers :
                  /\ hs[h].pc = "rv_txn" /\ hs'[h].pc # "rv_txn"
                  /\ hs[h].identifier = i
                  /\ ~hs[h].is_allowed
                  /\ denialTimes'[i] = Append(denialTimes[i], hs[h].vnow)
    /\ \A h \in Handlers :
          /\ (hs'[h].pc = "rv_txn" /\ hs[h].pc # "rv_txn") => hs[h].pc = "rv_clock"
          /\ (hs'[h].pc = "rv_clock" /\ hs[h].pc # "rv_clock") =>
                /\ hs[h].pc \in {"sw_txn", "tb_write"}
                /\ ~hs'[h].is_allowed
          /\ (hs'[h].pc = "block_client" /\ hs[h].pc # "block_client") =>
                hs[h].pc = "rv_txn"
          /\ (hs'[h].pc = "respond" /\ hs[h].pc # "respond") =>
                hs[h].pc \in {"rv_txn", "block_client"}
          /\ (hs'[h].status = "limited" /\ hs[h].status # "limited") =>
                hs[h].pc = "respond"
          /\ (hs[h].pc = "rv_txn" /\ hs'[h].pc \in {"respond", "block_client"}) =>
                Len(denialTimes'[hs[h].identifier])
                    = Len(denialTimes[hs[h].identifier]) + 1

\* C27: the facade records exactly one violation for each request the limiter
\* denies, and the record (with any block write it triggers) is complete
\* before the decision is returned; it records no violation for a request the
\* limiter allows (a fail-open allowance included) nor for a request rejected
\* because of an existing block.
C27_OneRecordPerDenialBeforeAnswer == []RecordedBeforeAnswer /\ [][RecordStep]_vars

\* C27 witness: a denied request has its answer, its violation recorded and
\* the block it triggered written.
C27_Witness ==
    \E h \in Handlers :
        /\ hs[h].via = "dispatch" /\ hs[h].pc = "done"
        /\ hs[h].status = "limited"
        /\ hs[h].violation_count >= violation_threshold
        /\ \E at \in blockWrites[hs[h].identifier] : at >= hs[h].vnow

\* C28: in every reachable state, every key the engine has written to the
\* store (sliding-window log, token bucket, violation log, block) carries an
\* expiry that has not yet run out, under any interleaving of the handlers
\* and any failure of a store call.
C28_EveryKeyHasExpiry ==
    \A k \in AllKeys : Exists(db[k]) => (db[k].ttl /\ db[k].exp > now)

\* C28 witness: a store call of one request has failed, another request is in
\* flight, and a limiter key, a violation log and a block exist.
C28_Witness ==
    /\ \E h \in Handlers : hs[h].pc = "done" /\ hs[h].failed
    /\ \E h \in Handlers : hs[h].pc \notin {"idle", "done"}
    /\ Exists(db[LimiterKey(<<"A">>, RouteLogin)])
    /\ Exists(db[violation_key(<<"A">>)])
    /\ Exists(db[block_key(<<"A">>)])

\* C29: limiter state is independent per (identifier, route) pair: two
\* requests whose (identifier, route) pairs differ never read or write the
\* same limiter key, for all identifier and route strings (routes that differ
\* only in '/', ':' and '_' and identifiers containing ':' included), and a
\* limiter key never coincides with a violation key or a block key.
C29_LimiterKeyPerPair ==
    /\ \A i, j \in 1 .. Len(decisions) :
          <<decisions[i].identifier, decisions[i].route>>
                # <<decisions[j].identifier, decisions[j].route>>
             => decisions[i].key # decisions[j].key
    /\ \A i \in 1 .. Len(decisions) :
          \A id \in KeyIdentifiers :
              decisions[i].key \notin {violation_key(id), block_key(id)}

\* C30: key expiry never changes a decision for the sliding-window log or the
\* violation log: the counts on which the allow/deny and block outcomes rest
\* equal those of a store in which these keys never expire and are only
\* pruned on access, which holds the distinct timestamps, later than the
\* start of the window, of the earlier calls and denials.
C30_ExpiryChangesNoDecision ==
    /\ \A h \in Handlers :
          (hs[h].via = "dispatch" /\ hs[h].pc \in {"block_client", "respond"}) =>
              hs[h].violation_count
                  = Cardinality({ denialTimes[hs[h].identifier][j] :
                                    j \in DenialsInWindow(hs[h].identifier,
                                                          hs[h].vnow) })
    /\ algorithm = "sliding_window" =>
          \A k \in SWKeys :
              LET c == CallsOn(k)
              IN  \A n \in 1 .. Len(c) :
                      c[n].count
                          = Cardinality({ c[m].t : m \in
                                { m \in 1 .. n - 1 :
                                    c[m].t > c[n].t - WindowTicks(c[n].policy) } })

====
